---- MODULE Spec2Model ----
(***************************************************************************)
(* Session facade of the Electrum wallet backend                           *)
(* (subprojects/gdk_rust/gdk_electrum/src/session.rs): endpoint            *)
(* resolution, command dispatch, and the session state shared between the  *)
(* dispatcher and the background workers.                                  *)
(***************************************************************************)
EXTENDS Integers, Naturals, Sequences, FiniteSets, TLC

(***************************************************************************)
(* Bounds of the model.                                                    *)
(***************************************************************************)
\* u64 parameters are hi * 2^32 + lo; hi ranges over 0..MaxHi
MaxHi == 1
\* ... and lo (the low 32-bit word, a u32 subaccount index) over 0..MaxLo
MaxLo == 1
\* background workers spawned by start_threads
NumWorkers == 1
\* longest fee-estimate list returned by the fee collaborator
MaxFees == 2

(***************************************************************************)
(* Option<T>, Result<T, E>                                                 *)
(***************************************************************************)
None == [some |-> FALSE]
Some(x) == [some |-> TRUE, v |-> x]
Ok(x) == [ok |-> TRUE, value |-> x]
Err(e) == [ok |-> FALSE, err |-> e]
unwrap_or(opt, d) == IF opt.some THEN opt.v ELSE d

(***************************************************************************)
(* serde_json::Value.  A u64 number n is kept as its two 32-bit words,     *)
(* n = hi * 2^32 + lo.                                                     *)
(***************************************************************************)
JNull == [t |-> "null"]
JBool(b) == [t |-> "bool", b |-> b]
JStr(s) == [t |-> "string", s |-> s]
JU64(h, l) == [t |-> "u64", hi |-> h, lo |-> l]
JNeg == [t |-> "negative"]
\* arrays: of values (a sequence), of subaccount numbers, of outpoints, of summaries
JArr(a) == [t |-> "array", a |-> a]
JNums(ns) == [t |-> "array", nums |-> ns]
JOutpoints(os) == [t |-> "array", outpoints |-> os]
JSummaries(ss) == [t |-> "array", summaries |-> ss]
JObj(f) == [t |-> "object", o |-> f]

\* Value::as_str
as_str(v) == IF v.t = "string" THEN Some(v.s) ELSE None
\* Value::as_u64
as_u64(v) == IF v.t = "u64" THEN Some([hi |-> v.hi, lo |-> v.lo]) ELSE None
\* `n as u32`: the low 32 bits of a u64
as_u32(n) == n.lo
\* Index<&str> for Value: input["key"], Null when input is no object or lacks key
Index(v, key) ==
    IF v.t = "object" /\ key \in DOMAIN v.o THEN v.o[key] ELSE JNull
\* IndexMut<&str> for Value: input["key"] = w.  Null becomes an object, an object
\* gets or replaces the key, any other value panics
Panic == [t |-> "panic"]
IndexSet(v, key, w) ==
    IF v.t \notin {"object", "null"} THEN Panic
    ELSE LET old == IF v.t = "object" THEN v.o ELSE <<>>
         IN JObj([k \in (DOMAIN old) \cup {key} |-> IF k = key THEN w ELSE old[k]])

(***************************************************************************)
(* Errors and their wire form                                              *)
(***************************************************************************)
Generic(msg) == [kind |-> "Generic", msg |-> msg]
MethodNotFound(m, in_sess) == [kind |-> "MethodNotFound", method |-> m, in_session |-> in_sess]
DomainError(k) == [kind |-> k]

\* Error's Display (error.rs): the message fragments, in order
to_string(e) ==
    CASE e.kind = "Generic" -> <<e.msg>>
      [] e.kind = "MethodNotFound" -> <<"method not found", e.method>>
      [] OTHER -> <<e.kind>>

\* Error::to_gdk_code (error.rs)
to_gdk_code(e) ==
    CASE e.kind = "InsufficientFunds" -> "id_insufficient_funds"
      [] e.kind = "InvalidAmount" -> "id_invalid_amount"
      [] OTHER -> "id_unknown"

\* JsonError::new (gdk_common::session)
JsonError_new(msg) == [message |-> <<msg>>, error |-> "id_unknown"]

\* impl From<Error> for JsonError
JsonError_from(e) == [message |-> to_string(e), error |-> to_gdk_code(e)]

(***************************************************************************)
(* Endpoint resolution                                                     *)
(***************************************************************************)
OptBool == {None, Some(TRUE), Some(FALSE)}
OnionUrls == {None, Some(""), Some("explorerzyd.onion:110")}
ElectrumUrls == {None, Some(""), Some("electrum.example:50002")}
Proxies == {None, Some(""), Some("127.0.0.1:9050")}

NetworkParameters ==
    [use_tor : OptBool, electrum_onion_url : OnionUrls, electrum_url : ElectrumUrls,
     electrum_tls : OptBool, validate_domain : OptBool, proxy : Proxies]

Plaintext(host) == [variant |-> "Plaintext", host |-> host]
Tls(host, validate) == [variant |-> "Tls", host |-> host, validate_domain |-> validate]

\* faulty variant: the TLS setting is honoured before the Tor branch is tried
determine_electrum_url_tls_first(network) ==
    IF /\ network.use_tor = Some(TRUE)
       /\ network.electrum_onion_url.some
       /\ network.electrum_onion_url.v # ""
       /\ ~unwrap_or(network.electrum_tls, FALSE)
    THEN Ok(Plaintext(network.electrum_onion_url.v))
    ELSE IF ~network.electrum_url.some
    THEN Err(Generic("network url is missing"))
    ELSE IF network.electrum_url.v = ""
    THEN Err(Generic("network url is empty"))
    ELSE IF unwrap_or(network.electrum_tls, FALSE)
    THEN Ok(Tls(network.electrum_url.v, unwrap_or(network.validate_domain, FALSE)))
    ELSE Ok(Plaintext(network.electrum_url.v))

\* faulty variant: an empty electrum_url is accepted
determine_electrum_url_empty_ok(network) ==
    IF /\ network.use_tor = Some(TRUE)
       /\ network.electrum_onion_url.some
       /\ network.electrum_onion_url.v # ""
    THEN Ok(Plaintext(network.electrum_onion_url.v))
    ELSE IF ~network.electrum_url.some
    THEN Err(Generic("network url is missing"))
    ELSE IF unwrap_or(network.electrum_tls, FALSE)
    THEN Ok(Tls(network.electrum_url.v, unwrap_or(network.validate_domain, FALSE)))
    ELSE Ok(Plaintext(network.electrum_url.v))

\* faulty variant: validate_domain defaults to true when absent
determine_electrum_url_validate_default(network) ==
    IF /\ network.use_tor = Some(TRUE)
       /\ network.electrum_onion_url.some
       /\ network.electrum_onion_url.v # ""
    THEN Ok(Plaintext(network.electrum_onion_url.v))
    ELSE IF ~network.electrum_url.some
    THEN Err(Generic("network url is missing"))
    ELSE IF network.electrum_url.v = ""
    THEN Err(Generic("network url is empty"))
    ELSE IF unwrap_or(network.electrum_tls, FALSE)
    THEN Ok(Tls(network.electrum_url.v, unwrap_or(network.validate_domain, TRUE)))
    ELSE Ok(Plaintext(network.electrum_url.v))

determine_electrum_url(network) ==
    IF /\ network.use_tor = Some(TRUE)
       /\ network.electrum_onion_url.some
       /\ network.electrum_onion_url.v # ""
    THEN Ok(Plaintext(network.electrum_onion_url.v))
    ELSE IF ~network.electrum_url.some
    THEN Err(Generic("network url is missing"))
    ELSE IF network.electrum_url.v = ""
    THEN Err(Generic("network url is empty"))
    ELSE IF unwrap_or(network.electrum_tls, FALSE)
    THEN Ok(Tls(network.electrum_url.v, unwrap_or(network.validate_domain, FALSE)))
    ELSE Ok(Plaintext(network.electrum_url.v))

\* HashMap::new()
EmptyMap == [i \in {} |-> None]

\* socksify (lib.rs): an absent or empty proxy is no proxy, else a socks5 url
socksify(proxy) ==
    IF ~proxy.some \/ proxy.v = "" THEN None ELSE Some("socks5://" \o proxy.v)

\* faulty variant: the spent-output set starts with an outpoint in it
new_spent_not_empty(network_parameters) ==
    LET url == determine_electrum_url(network_parameters)
    IN IF ~url.ok
       THEN Err(JsonError_from(url.err))
       ELSE Ok([proxy |-> socksify(network_parameters.proxy),
                network |-> network_parameters,
                url |-> url.value,
                accounts |-> EmptyMap,
                handles |-> {},
                user_wants_to_sync |-> FALSE,
                last_network_call_succeeded |-> FALSE,
                timeout |-> None,
                store |-> None,
                master_xpub |-> None,
                master_xprv |-> None,
                recent_spent_utxos |-> {<<"tx", 0>>}])

\* Session::new
new(network_parameters) ==
    LET url == determine_electrum_url(network_parameters)
    IN IF ~url.ok
       THEN Err(JsonError_from(url.err))
       ELSE Ok([proxy |-> socksify(network_parameters.proxy),
                network |-> network_parameters,
                url |-> url.value,
                accounts |-> EmptyMap,
                handles |-> {},
                user_wants_to_sync |-> FALSE,
                last_network_call_succeeded |-> FALSE,
                timeout |-> None,
                store |-> None,
                master_xpub |-> None,
                master_xprv |-> None,
                recent_spent_utxos |-> {}])

(***************************************************************************)
(* Requests.  Every typed request shape is abstracted to one required u32  *)
(* field (`subaccount`) and one optional string field (`memo`); unknown    *)
(* fields are ignored.                                                     *)
(***************************************************************************)
U64 == [hi : 0..MaxHi, lo : 0..MaxLo]
Txs == {"tx"}

InputObjects ==
    {<<>>}
    \cup {[subaccount |-> JU64(n.hi, n.lo)] : n \in U64}
    \cup {[subaccount |-> JNeg], [subaccount |-> JStr("tx")]}
    \cup {[subaccount |-> JU64(0, 0), error |-> JStr("stale")]}
    \cup {[subaccount |-> JU64(0, 0), memo |-> JU64(0, 0)]}
    \cup {[txid |-> JStr(x)] : x \in Txs}
    \cup {[memo |-> JStr("note")]}
    \cup {[txid |-> JStr(x), memo |-> JStr("note")] : x \in Txs}
    \cup {[txid |-> JStr(x), memo |-> JU64(0, 0)] : x \in Txs}

Inputs ==
    {JNull, JArr(<<>>)} \cup {JStr(x) : x \in Txs} \cup {JObj(f) : f \in InputObjects}

\* serde_json::from_value into a typed request (gdk_common::model)
from_value(input) ==
    LET sub == Index(input, "subaccount")
        memo == Index(input, "memo")
    IN IF input.t # "object" THEN Err(DomainError("JSON"))
       ELSE IF sub.t # "u64" \/ sub.hi # 0 THEN Err(DomainError("JSON"))
       ELSE IF memo.t \notin {"null", "string"} THEN Err(DomainError("JSON"))
       ELSE Ok([subaccount |-> sub.lo, memo |-> as_str(memo), utxos |-> {}])

\* serde_json::to_value of a typed request
to_value(req) ==
    JObj([subaccount |-> JU64(0, req.subaccount),
          memo |-> IF req.memo.some THEN JStr(req.memo.v) ELSE JNull,
          utxos |-> JOutpoints(req.utxos)])

(***************************************************************************)
(* The method table of handle_call, by the way each arm reads its input.   *)
(***************************************************************************)
NoParamMethods ==
    {"poll_session", "disconnect", "get_block_height", "get_subaccount_nums",
     "get_subaccounts", "get_fee_estimates", "get_settings",
     "get_available_currencies", "get_master_blinding_key", "start_threads",
     "get_wallet_hash_id", "remove_account"}

TypedMethods ==
    {"login", "credentials_from_pin_data", "encrypt_with_pin",
     "discover_subaccount", "get_subaccount_root_path", "get_subaccount_xpub",
     "create_subaccount", "get_next_subaccount", "rename_subaccount",
     "set_subaccount_hidden", "update_subaccount", "get_transactions",
     "get_balance", "sign_transaction", "send_transaction",
     "get_receive_address", "get_previous_addresses", "change_settings",
     "get_unspent_outputs", "load_store", "set_master_blinding_key"}

\* arms answering json!(true) whatever the operation returned
UnitMethods ==
    {"rename_subaccount", "set_subaccount_hidden", "update_subaccount"}

RawStringMethods ==
    {"get_transaction_hex", "get_transaction_details", "broadcast_transaction"}

SupportedMethods ==
    NoParamMethods \cup TypedMethods \cup RawStringMethods
    \cup {"connect", "get_subaccount", "set_transaction_memo", "create_transaction"}

\* method strings no arm matches
UnknownMethods == {"foo", "Connect", "auth_handler_get_status"}

Methods == SupportedMethods \cup UnknownMethods

(***************************************************************************)
(* Session operations behind the dispatcher (lib.rs, account.rs).  `ext`   *)
(* is what the world outside the session decides: whether the operation    *)
(* succeeds (out = "ok") or fails with an error kind, and what the fee     *)
(* source returns.                                                         *)
(***************************************************************************)
Workers == 1..NumWorkers
FeeRates == {1000, 2500}
FeeLists == UNION {[1..n -> FeeRates] : n \in 0..MaxFees}
outpoint(tx) == <<tx, 0>>
Outpoints == {outpoint(x) : x \in Txs}

\* account registry: get / insert / list / remove all
registry_get(s, index) ==
    IF index \in DOMAIN s.accounts THEN Some(s.accounts[index]) ELSE None
registry_insert(s, index, account) ==
    [s EXCEPT !.accounts =
        [i \in (DOMAIN s.accounts) \cup {index} |->
            IF i = index THEN account ELSE s.accounts[i]]]
registry_list(s) == DOMAIN s.accounts
registry_clear(s) == [s EXCEPT !.accounts = EmptyMap]

\* spent-output set: mark_spent / clear_if_confirmed / contains
mark_spent(s, o) ==
    [s EXCEPT !.recent_spent_utxos = s.recent_spent_utxos \cup {o}]
clear_if_confirmed(s, o, confirmed) ==
    IF confirmed
    THEN [s EXCEPT !.recent_spent_utxos = s.recent_spent_utxos \ {o}]
    ELSE s
contains(s, o) == o \in s.recent_spent_utxos

Account(index) == [account_num |-> index]
summary(account) == JObj([pointer |-> JU64(0, account.account_num)])
Done(op) == JStr(op)

\* operations that take the account registry lock / the spent-output set lock
RegistryOps ==
    {"get_subaccount_nums", "get_subaccounts", "get_subaccount",
     "create_subaccount", "discover_subaccount", "get_next_subaccount",
     "rename_subaccount", "set_subaccount_hidden", "update_subaccount",
     "get_subaccount_root_path", "get_subaccount_xpub", "get_transactions",
     "get_balance", "get_receive_address", "get_previous_addresses",
     "create_transaction", "sign_transaction", "send_transaction",
     "remove_account"}
SpentOps ==
    {"get_unspent_outputs", "create_transaction", "broadcast_transaction"}

\* ElectrumSession::get_subaccount(u32)
session_get_subaccount(s, index) ==
    LET a == registry_get(s, index)
    IN IF a.some THEN Ok(summary(a.v)) ELSE Err(DomainError("InvalidSubaccount"))

\* ElectrumSession::create_transaction(&mut CreateTransaction): on the way it
\* fills the request's utxos with the outpoints coin selection may use
session_create_transaction(s, create_tx, ext) ==
    LET filled == [create_tx EXCEPT
                      !.utxos = {o \in Outpoints : ~contains(s, o)}]
    IN [create_tx |-> filled,
        res |-> IF ext.out = "ok" THEN Ok([create_transaction |-> filled]) ELSE Err(DomainError(ext.out))]

\* ElectrumSession::get_fee_estimates
session_get_fee_estimates(s, ext) ==
    IF ext.out = "ok" THEN Ok(ext.fees) ELSE Err(DomainError(ext.out))

\* every other session operation: [session |-> the session afterwards, res |-> ...]
session_op(s, op, arg, ext) ==
    IF ext.out # "ok" THEN [session |-> s, res |-> Err(DomainError(ext.out))]
    ELSE CASE op = "connect" ->
                [session |-> [s EXCEPT !.user_wants_to_sync = TRUE],
                 res |-> Ok(Done(op))]
           [] op = "start_threads" ->
                [session |-> [s EXCEPT !.handles = Workers], res |-> Ok(Done(op))]
           [] op = "login" ->
                [session |-> [s EXCEPT !.master_xpub = Some("xpub"),
                                       !.master_xprv = Some("xprv"),
                                       !.store = Some("store")],
                 res |-> Ok(Done(op))]
           [] op = "create_subaccount" ->
                [session |-> registry_insert(s, arg.subaccount, Account(arg.subaccount)),
                 res |-> Ok(summary(Account(arg.subaccount)))]
           [] op = "get_subaccounts" ->
                [session |-> s,
                 res |-> Ok(JSummaries({summary(s.accounts[i]) : i \in registry_list(s)}))]
           [] op = "get_subaccount_nums" ->
                [session |-> s, res |-> Ok(JNums(registry_list(s)))]
           [] op = "remove_account" ->
                [session |-> registry_clear(s),
                 res |-> Ok(Done(op))]
           [] op = "broadcast_transaction" ->
                [session |-> mark_spent(s, outpoint(arg)), res |-> Ok(JStr(arg))]
           [] op = "get_unspent_outputs" ->
                [session |-> s,
                 res |-> Ok(JOutpoints({o \in Outpoints : ~contains(s, o)}))]
           [] OTHER -> [session |-> s, res |-> Ok(Done(op))]

(***************************************************************************)
(* The dispatcher.  A reply is the session after the call, the result      *)
(* returned to the caller, and the session operation the arm invoked       *)
(* ("none" when it returned before invoking one).                          *)
(***************************************************************************)
Reply(s, result, invoked) == [session |-> s, result |-> result, invoked |-> invoked]

\* .map(|v| json!(v)).map_err(Into::into)
map_json(res) == IF res.ok THEN Ok(res.value) ELSE Err(JsonError_from(res.err))
\* .map(|_| json!(true)).map_err(Into::into)
map_true(res) == IF res.ok THEN Ok(JBool(TRUE)) ELSE Err(JsonError_from(res.err))

\* get_subaccount
get_subaccount(s, input) ==
    LET index == as_u64(Index(input, "subaccount"))
    IN IF ~index.some
       THEN Reply(s, Err(JsonError_from(Generic("get_subaccount: index argument not found"))), "none")
       ELSE Reply(s, map_json(session_get_subaccount(s, as_u32(index.v))), "get_subaccount")

\* get_transaction_hex
get_transaction_hex(s, input, ext) ==
    LET txid == as_str(input)
    IN IF ~txid.some
       THEN Reply(s, Err(JsonError_from(Generic("get_transaction_hex: input is not a string"))), "none")
       ELSE LET r == session_op(s, "get_transaction_hex", txid.v, ext)
            IN Reply(r.session, map_json(r.res), "get_transaction_hex")

\* txs_result_value
txs_result_value(txs) == txs

\* faulty variant: the typed copy, as construction left it, is echoed instead of the input
create_transaction_echo_typed(s, input, ext) ==
    LET create_tx == from_value(input)
    IN IF ~create_tx.ok
       THEN Reply(s, Err(JsonError_from(create_tx.err)), "none")
       ELSE LET r == session_create_transaction(s, create_tx.value, ext)
            IN IF ~r.res.ok
               THEN Reply(s, Ok(IndexSet(to_value(r.create_tx), "error",
                                         JStr(to_gdk_code(r.res.err)))),
                          "create_transaction")
               ELSE Reply(s, Ok(JObj([create_transaction |->
                                  to_value(r.res.value.create_transaction)])),
                          "create_transaction")

\* create_transaction
create_transaction(s, input, ext) ==
    LET create_tx == from_value(input)
    IN IF ~create_tx.ok
       THEN Reply(s, Err(JsonError_from(create_tx.err)), "none")
       ELSE LET r == session_create_transaction(s, create_tx.value, ext)
            IN IF ~r.res.ok
               THEN Reply(s, Ok(IndexSet(input, "error", JStr(to_gdk_code(r.res.err)))),
                          "create_transaction")
               ELSE Reply(s, Ok(JObj([create_transaction |->
                                  to_value(r.res.value.create_transaction)])),
                          "create_transaction")

\* faulty variant: a missing memo is taken as the empty memo
set_transaction_memo_default_memo(s, input, ext) ==
    LET txid == as_str(Index(input, "txid"))
        memo == as_str(Index(input, "memo"))
    IN IF ~txid.some
       THEN Reply(s, Err(JsonError_new("set_transaction_memo: missing txid")), "none")
       ELSE LET r == session_op(s, "set_transaction_memo",
                                <<txid.v, unwrap_or(memo, "")>>, ext)
            IN Reply(r.session, map_json(r.res), "set_transaction_memo")

\* set_transaction_memo
set_transaction_memo(s, input, ext) ==
    LET txid == as_str(Index(input, "txid"))
        memo == as_str(Index(input, "memo"))
    IN IF ~txid.some
       THEN Reply(s, Err(JsonError_new("set_transaction_memo: missing txid")), "none")
       ELSE IF ~memo.some
       THEN Reply(s, Err(JsonError_new("set_transaction_memo: missing memo")), "none")
       ELSE LET r == session_op(s, "set_transaction_memo", <<txid.v, memo.v>>, ext)
            IN Reply(r.session, map_json(r.res), "set_transaction_memo")

\* FeeEstimate's serialization
fee_value(e) == JU64(0, e)

\* faulty variant: an empty list is passed through
fee_estimate_values_no_check(estimates) ==
    Ok(JObj([fees |-> JArr([i \in 1..Len(estimates) |-> fee_value(estimates[i])])]))

\* fee_estimate_values
fee_estimate_values(estimates) ==
    IF Len(estimates) = 0
    THEN Err(JsonError_new("Expected at least one feerate"))
    ELSE Ok(JObj([fees |-> JArr([i \in 1..Len(estimates) |-> fee_value(estimates[i])])]))

\* faulty variant: an unmatched method is answered with a fixed method name
method_not_found_fixed(s, method) ==
    Reply(s, Err(JsonError_from(MethodNotFound("unknown", TRUE))), "none")

\* handle_call, the `_` arm
method_not_found(s, method) ==
    Reply(s, Err(JsonError_from(MethodNotFound(method, TRUE))), "none")

\* handle_call, the arms that deserialize the input with serde_json::from_value
typed_arm(s, method, input, ext) ==
    LET req == from_value(input)
    IN IF ~req.ok
       THEN Reply(s, Err(JsonError_from(req.err)), "none")
       ELSE LET r == session_op(s, method, req.value, ext)
            IN Reply(r.session,
                     IF method \in UnitMethods THEN map_true(r.res)
                     ELSE IF method = "get_transactions"
                     THEN (IF r.res.ok THEN Ok(txs_result_value(r.res.value))
                           ELSE Err(JsonError_from(r.res.err)))
                     ELSE map_json(r.res),
                     method)

\* handle_call, "get_transaction_details" and "broadcast_transaction"
raw_string_arm(s, method, input, ext) ==
    LET str == as_str(input)
    IN IF ~str.some
       THEN Reply(s,
                  Err(JsonError_from(Generic(
                      IF method = "broadcast_transaction"
                      THEN "broadcast_transaction: input not a string"
                      ELSE "get_transaction_details: input is not a string"))),
                  "none")
       ELSE LET r == session_op(s, method, str.v, ext)
            IN Reply(r.session, map_json(r.res), method)

\* handle_call, "disconnect": the stop signal; the join follows (DisconnectJoin)
disconnect_stop(s) == [s EXCEPT !.user_wants_to_sync = FALSE]

\* faulty variant: the "disconnect" arm runs poll_session instead of disconnect
handle_call_disconnect_polls(s, method, input, ext) ==
    CASE method = "disconnect" ->
            Reply(s, Ok(JNull), "disconnect")
      [] method = "get_fee_estimates" ->
            LET r == session_get_fee_estimates(s, ext)
            IN Reply(s,
                     IF r.ok THEN fee_estimate_values(r.value)
                     ELSE Err(JsonError_from(r.err)),
                     "get_fee_estimates")
      [] method \in NoParamMethods \ {"disconnect", "get_fee_estimates"} ->
            LET r == session_op(s, method, JNull, ext)
            IN Reply(r.session, map_json(r.res), method)
      [] method = "connect" ->
            LET r == session_op(s, method, input, ext)
            IN Reply(r.session, map_json(r.res), method)
      [] method \in TypedMethods -> typed_arm(s, method, input, ext)
      [] method = "get_subaccount" -> get_subaccount(s, input)
      [] method = "get_transaction_hex" -> get_transaction_hex(s, input, ext)
      [] method \in {"get_transaction_details", "broadcast_transaction"} ->
            raw_string_arm(s, method, input, ext)
      [] method = "set_transaction_memo" -> set_transaction_memo(s, input, ext)
      [] method = "create_transaction" -> create_transaction(s, input, ext)
      [] OTHER -> method_not_found(s, method)

\* handle_call
handle_call(s, method, input, ext) ==
    CASE method = "disconnect" ->
            Reply(disconnect_stop(s), Ok(JNull), "disconnect")
      [] method = "get_fee_estimates" ->
            LET r == session_get_fee_estimates(s, ext)
            IN Reply(s,
                     IF r.ok THEN fee_estimate_values(r.value)
                     ELSE Err(JsonError_from(r.err)),
                     "get_fee_estimates")
      [] method \in NoParamMethods \ {"disconnect", "get_fee_estimates"} ->
            LET r == session_op(s, method, JNull, ext)
            IN Reply(r.session, map_json(r.res), method)
      [] method = "connect" ->
            LET r == session_op(s, method, input, ext)
            IN Reply(r.session, map_json(r.res), method)
      [] method \in TypedMethods -> typed_arm(s, method, input, ext)
      [] method = "get_subaccount" -> get_subaccount(s, input)
      [] method = "get_transaction_hex" -> get_transaction_hex(s, input, ext)
      [] method \in {"get_transaction_details", "broadcast_transaction"} ->
            raw_string_arm(s, method, input, ext)
      [] method = "set_transaction_memo" -> set_transaction_memo(s, input, ext)
      [] method = "create_transaction" -> create_transaction(s, input, ext)
      [] OTHER -> method_not_found(s, method)

\* what the world outside the session may answer to a call of `method`
Outcomes(method) ==
    IF method = "create_transaction"
    THEN {"ok", "InsufficientFunds", "InvalidAmount"}
    ELSE {"ok", "Network"}
ExtFor(method) ==
    IF method = "get_fee_estimates"
    THEN {[out |-> "ok", fees |-> f] : f \in FeeLists}
         \cup {[out |-> "Network", fees |-> <<>>]}
    ELSE {[out |-> o, fees |-> <<>>] : o \in Outcomes(method)}

(***************************************************************************)
(* State                                                                   *)
(***************************************************************************)
VARIABLES
    network_parameters, \* the argument of Session::new
    new_result,         \* once Session::new was called: the endpoint resolved
                        \* and the error returned, if any
    session,            \* the ElectrumSession
    call,               \* the request being answered, its reply, the session
                        \* operation invoked and what the collaborators answered
    dpc,                \* the dispatcher: "idle", "joining", "replied"
    wpc,                \* each worker: "unspawned", "poll", "accounts",
                        \* "confirm", "spent", "done"
    accounts_lock,      \* writer holding the RwLock of session.accounts
    spent_lock          \* writer holding the RwLock of session.recent_spent_utxos

vars == <<network_parameters, new_result, session, call, dpc, wpc,
          accounts_lock, spent_lock>>

NoSession == [absent |-> TRUE]
NoExt == [out |-> "none", fees |-> <<>>]
NoCall == [method |-> "", input |-> JNull, result |-> None, invoked |-> "none",
           collab |-> NoExt]
NotCalled == [called |-> FALSE]

(***************************************************************************)
(* Construction                                                            *)
(***************************************************************************)
InitNew ==
    /\ network_parameters \in NetworkParameters
    /\ new_result = NotCalled
    /\ session = NoSession
    /\ call = NoCall
    /\ dpc = "idle"
    /\ wpc = [w \in Workers |-> "unspawned"]
    /\ accounts_lock = None
    /\ spent_lock = None

New ==
    /\ ~new_result.called
    /\ \E r \in {new(network_parameters)} :
          /\ new_result' = [called |-> TRUE,
                            url |-> determine_electrum_url(network_parameters),
                            err |-> IF r.ok THEN None ELSE Some(r.err)]
          /\ session' = IF r.ok THEN r.value ELSE NoSession
    /\ UNCHANGED <<network_parameters, call, dpc, wpc, accounts_lock, spent_lock>>

NextNew == New

SpecNew == InitNew /\ [][NextNew]_vars

(***************************************************************************)
(* A constructed session: the dispatcher and the background workers        *)
(***************************************************************************)
InitNetworks ==
    {[use_tor |-> Some(FALSE), electrum_onion_url |-> None,
      electrum_url |-> Some("electrum.example:50002"),
      electrum_tls |-> Some(TRUE), validate_domain |-> Some(TRUE), proxy |-> None]}

Init ==
    /\ network_parameters \in InitNetworks
    /\ new(network_parameters).ok
    /\ new_result = [called |-> TRUE,
                     url |-> determine_electrum_url(network_parameters),
                     err |-> None]
    /\ session = new(network_parameters).value
    /\ call = NoCall
    /\ dpc = "idle"
    /\ wpc = [w \in Workers |-> "unspawned"]
    /\ accounts_lock = None
    /\ spent_lock = None

\* handle_call up to its return, or for "disconnect" up to the join
HandleCall(method, input, ext) ==
    /\ dpc = "idle"
    /\ \E r \in {handle_call(session, method, input, ext)} :
          /\ r.invoked \in RegistryOps => accounts_lock = None
          /\ r.invoked \in SpentOps => spent_lock = None
          /\ session' = r.session
          /\ call' = [method |-> method, input |-> input,
                      result |-> IF method = "disconnect" THEN None ELSE Some(r.result),
                      invoked |-> r.invoked,
                      collab |-> IF r.invoked \in {"none", "disconnect", "get_subaccount"}
                                 THEN NoExt ELSE ext]
          /\ dpc' = IF method = "disconnect" THEN "joining" ELSE "replied"
          /\ wpc' = [w \in Workers |->
                        IF w \in r.session.handles \ session.handles
                        THEN "poll" ELSE wpc[w]]
    /\ UNCHANGED <<network_parameters, new_result, accounts_lock, spent_lock>>

\* "disconnect": join every handle, then return
DisconnectJoin ==
    /\ dpc = "joining"
    /\ \A h \in session.handles : wpc[h] = "done"
    /\ session' = [session EXCEPT !.handles = {}]
    /\ wpc' = [w \in Workers |-> IF w \in session.handles THEN "unspawned" ELSE wpc[w]]
    /\ call' = [call EXCEPT !.result = Some(Ok(JNull))]
    /\ dpc' = "replied"
    /\ UNCHANGED <<network_parameters, new_result, accounts_lock, spent_lock>>

\* the caller takes the reply; the next request may come
Return ==
    /\ dpc = "replied"
    /\ dpc' = "idle"
    /\ call' = NoCall
    /\ UNCHANGED <<network_parameters, new_result, session, wpc, accounts_lock, spent_lock>>

\* a worker finds user_wants_to_sync false and ends
WorkerStop(w) ==
    /\ wpc[w] = "poll"
    /\ ~session.user_wants_to_sync
    /\ wpc' = [wpc EXCEPT ![w] = "done"]
    /\ UNCHANGED <<network_parameters, new_result, session, call, dpc,
                   accounts_lock, spent_lock>>

\* a worker finds user_wants_to_sync true and takes the registry for writing
WorkerLockAccounts(w) ==
    /\ wpc[w] = "poll"
    /\ session.user_wants_to_sync
    /\ accounts_lock = None
    /\ accounts_lock' = Some(w)
    /\ wpc' = [wpc EXCEPT ![w] = "accounts"]
    /\ UNCHANGED <<network_parameters, new_result, session, call, dpc, spent_lock>>

\* it syncs the accounts, records how the network call went, releases the registry
WorkerSyncAccounts(w, succeeded) ==
    /\ wpc[w] = "accounts"
    /\ session' = [session EXCEPT !.last_network_call_succeeded = succeeded]
    /\ accounts_lock' = None
    /\ wpc' = [wpc EXCEPT ![w] = "confirm"]
    /\ UNCHANGED <<network_parameters, new_result, call, dpc, spent_lock>>

\* it takes the spent-output set for writing
WorkerLockSpent(w) ==
    /\ wpc[w] = "confirm"
    /\ spent_lock = None
    /\ spent_lock' = Some(w)
    /\ wpc' = [wpc EXCEPT ![w] = "spent"]
    /\ UNCHANGED <<network_parameters, new_result, session, call, dpc, accounts_lock>>

\* it clears the outpoints whose spend the sync saw confirmed, releases the set
WorkerClearSpent(w, o, confirmed) ==
    /\ wpc[w] = "spent"
    /\ session' = clear_if_confirmed(session, o, confirmed)
    /\ spent_lock' = None
    /\ wpc' = [wpc EXCEPT ![w] = "poll"]
    /\ UNCHANGED <<network_parameters, new_result, call, dpc, accounts_lock>>

\* the dispatcher thread alone: the requests a caller may send, one at a time.
\* Worker threads take no step here, so a disconnect of started workers stays in
\* its join; SyncNext below interleaves them.
Next ==
    \/ \E method \in Methods, input \in Inputs :
          \E ext \in ExtFor(method) : HandleCall(method, input, ext)
    \/ DisconnectJoin
    \/ Return

Spec == Init /\ [][Next]_vars

\* the requests that reach the state shared with the workers, with params that
\* pass validation
StoreMethods ==
    {"connect", "start_threads", "disconnect", "create_subaccount",
     "get_subaccount", "get_subaccounts", "remove_account",
     "broadcast_transaction", "get_unspent_outputs", "create_transaction"}
StoreInputs ==
    {JStr(x) : x \in Txs} \cup {JObj([subaccount |-> JU64(0, lo)]) : lo \in 0..MaxLo}

\* every step a worker thread can take
WorkerStep(w) ==
    \/ WorkerStop(w)
    \/ WorkerLockAccounts(w)
    \/ \E succeeded \in BOOLEAN : WorkerSyncAccounts(w, succeeded)
    \/ WorkerLockSpent(w)
    \/ \E o \in Outpoints, confirmed \in BOOLEAN : WorkerClearSpent(w, o, confirmed)

\* the dispatcher thread and the worker threads, interleaved
SyncNext ==
    \/ \E method \in StoreMethods, input \in StoreInputs :
          \E ext \in ExtFor(method) : HandleCall(method, input, ext)
    \/ DisconnectJoin
    \/ Return
    \/ \E w \in Workers : WorkerStop(w)
    \/ \E w \in Workers : WorkerLockAccounts(w)
    \/ \E w \in Workers, succeeded \in BOOLEAN : WorkerSyncAccounts(w, succeeded)
    \/ \E w \in Workers : WorkerLockSpent(w)
    \/ \E w \in Workers, o \in Outpoints, confirmed \in BOOLEAN :
          WorkerClearSpent(w, o, confirmed)

SyncSpec == Init /\ [][SyncNext]_vars

\* the scheduler runs every thread that can run, and a join returns once the
\* joined threads have ended
FairSpec ==
    /\ SyncSpec
    /\ \A w \in Workers : WF_vars(WorkerStep(w))
    /\ WF_vars(DisconnectJoin)

(***************************************************************************)
(* Properties of endpoint resolution (SpecNew)                             *)
(***************************************************************************)
TorApplies(n) ==
    /\ n.use_tor = Some(TRUE)
    /\ n.electrum_onion_url.some
    /\ n.electrum_onion_url.v # ""

\* C1: with use_tor = Some(true) and a non-empty onion url, resolution yields
\* Plaintext(onion url), whatever electrum_tls, validate_domain and electrum_url are
C1_TorYieldsPlaintextOnion ==
    (new_result.called /\ TorApplies(network_parameters)) =>
        /\ new_result.url = Ok([variant |-> "Plaintext",
                                host |-> network_parameters.electrum_onion_url.v])
        /\ new_result.err = None
        /\ session # NoSession
        /\ session.url = [variant |-> "Plaintext",
                          host |-> network_parameters.electrum_onion_url.v]

C1_Witness ==
    /\ new_result.called
    /\ TorApplies(network_parameters)
    /\ network_parameters.electrum_tls = Some(TRUE)
    /\ network_parameters.electrum_url = None
    /\ session # NoSession
    /\ session.url.variant = "Plaintext"

\* C2: when the Tor branch does not apply and electrum_url is absent or empty,
\* resolution fails with the generic (configuration) error, "network url is missing"
\* for an absent url and "network url is empty" for an empty one, and Session::new
\* fails with it: no session is created
C2_MissingOrEmptyUrlFails ==
    (/\ new_result.called
     /\ ~TorApplies(network_parameters)
     /\ (~network_parameters.electrum_url.some \/ network_parameters.electrum_url.v = ""))
    =>
        /\ ~new_result.url.ok
        /\ new_result.url.err.kind = "Generic"
        /\ new_result.url.err.msg =
              (IF network_parameters.electrum_url.some
               THEN "network url is empty" ELSE "network url is missing")
        /\ new_result.err.some
        /\ new_result.err.v.message = <<new_result.url.err.msg>>
        /\ session = NoSession

C2_Witness ==
    /\ new_result.called
    /\ network_parameters.use_tor = Some(TRUE)
    /\ network_parameters.electrum_onion_url = Some("")
    /\ network_parameters.electrum_url = Some("")
    /\ network_parameters.electrum_tls = Some(TRUE)
    /\ new_result.err.some
    /\ session = NoSession

\* C3: when the Tor branch does not apply and electrum_url is present and non-empty,
\* the result is Tls(electrum_url, validate_domain or false) if electrum_tls is true,
\* Plaintext(electrum_url) otherwise; the host is always electrum_url
C3_UrlYieldsTlsOrPlaintext ==
    (/\ new_result.called
     /\ ~TorApplies(network_parameters)
     /\ network_parameters.electrum_url.some
     /\ network_parameters.electrum_url.v # "")
    =>
        /\ new_result.url.ok
        /\ new_result.url.value.host = network_parameters.electrum_url.v
        /\ IF network_parameters.electrum_tls = Some(TRUE)
           THEN /\ new_result.url.value.variant = "Tls"
                /\ new_result.url.value.validate_domain =
                      (network_parameters.validate_domain = Some(TRUE))
           ELSE new_result.url.value = [variant |-> "Plaintext",
                                       host |-> network_parameters.electrum_url.v]
        /\ session # NoSession
        /\ session.url = new_result.url.value

C3_Witness ==
    /\ new_result.called
    /\ network_parameters.use_tor = Some(TRUE)
    /\ network_parameters.electrum_onion_url = Some("")
    /\ network_parameters.electrum_tls = Some(TRUE)
    /\ network_parameters.validate_domain = None
    /\ session # NoSession
    /\ session.url = [variant |-> "Tls", host |-> "electrum.example:50002",
                      validate_domain |-> FALSE]

(***************************************************************************)
(* Properties of the dispatcher (Spec)                                     *)
(***************************************************************************)
\* the step is a handle_call taking a request
Dispatches == dpc = "idle" /\ dpc' # "idle"
\* a reply is with the caller
Replied == dpc = "replied" /\ call.result.some

\* C4: a method outside the supported names, with any params, is answered with the
\* error translated from MethodNotFound carrying exactly that method; the session
\* (and its workers) is unchanged and no session operation is invoked
C4_UnknownMethodNotFound ==
    [][(Dispatches /\ call'.method \notin SupportedMethods) =>
          /\ call'.result = Some(Err([message |-> <<"method not found", call'.method>>,
                                     error |-> "id_unknown"]))
          /\ call'.invoked = "none"
          /\ session' = session
          /\ wpc' = wpc
          /\ accounts_lock' = accounts_lock
          /\ spent_lock' = spent_lock]_vars

C4_Witness ==
    /\ Replied
    /\ call.method = "foo"
    /\ call.input = JObj([subaccount |-> JU64(0, 0)])
    /\ call.result.v = Err([message |-> <<"method not found", "foo">>,
                            error |-> "id_unknown"])
    /\ call.invoked = "none"
    /\ session.handles # {}
    /\ DOMAIN session.accounts # {}

ErrorCode(out) ==
    CASE out = "InsufficientFunds" -> "id_insufficient_funds"
      [] out = "InvalidAmount" -> "id_invalid_amount"

C6_FeeEstimatesNonEmpty ==
    (Replied /\ call.method = "get_fee_estimates") =>
        IF call.collab.out # "ok"
        THEN ~call.result.v.ok
        ELSE IF call.collab.fees = <<>>
        THEN call.result.v = Err([message |-> <<"Expected at least one feerate">>,
                                  error |-> "id_unknown"])
        ELSE /\ call.result.v.ok
             /\ call.result.v.value.t = "object"
             /\ DOMAIN call.result.v.value.o = {"fees"}
             /\ Len(call.result.v.value.o["fees"].a) = Len(call.collab.fees)
             /\ Len(call.result.v.value.o["fees"].a) >= 1
             /\ \A i \in 1..Len(call.collab.fees) :
                   call.result.v.value.o["fees"].a[i] = [t |-> "u64", hi |-> 0,
                                                        lo |-> call.collab.fees[i]]

C6_Witness ==
    /\ Replied
    /\ call.method = "get_fee_estimates"
    /\ call.collab = [out |-> "ok", fees |-> <<2500, 1000>>]
    /\ call.result.v.ok

\* the params of a call of `method` fail validation
Invalid(method, input) ==
    CASE method \in TypedMethods \cup {"create_transaction"} -> ~from_value(input).ok
      [] method \in RawStringMethods -> input.t # "string"
      [] method = "set_transaction_memo" ->
            \/ input.t # "object"
            \/ "txid" \notin DOMAIN input.o \/ "memo" \notin DOMAIN input.o
            \/ input.o["txid"].t # "string" \/ input.o["memo"].t # "string"
      [] method = "get_subaccount" ->
            \/ input.t # "object"
            \/ "subaccount" \notin DOMAIN input.o
            \/ input.o["subaccount"].t # "u64"
      [] OTHER -> FALSE

\* the message of the error answered to invalid params
InvalidMessage(method, input) ==
    CASE method = "get_transaction_hex" -> "get_transaction_hex: input is not a string"
      [] method = "get_transaction_details" ->
            "get_transaction_details: input is not a string"
      [] method = "broadcast_transaction" -> "broadcast_transaction: input not a string"
      [] method = "get_subaccount" -> "get_subaccount: index argument not found"
      [] method = "set_transaction_memo" ->
            IF input.t = "object" /\ "txid" \in DOMAIN input.o
               /\ input.o["txid"].t = "string"
            THEN "set_transaction_memo: missing memo"
            ELSE "set_transaction_memo: missing txid"
      [] OTHER -> "JSON"

\* C7: a recognized method whose params fail validation is answered with the
\* method's error message, its session operation is not invoked, and the session is
\* what it was before the call
C7_InvalidParamsNoMutation ==
    [][(Dispatches /\ Invalid(call'.method, call'.input)) =>
          /\ call'.result.some
          /\ ~call'.result.v.ok
          /\ call'.result.v.err.message = <<InvalidMessage(call'.method, call'.input)>>
          /\ call'.invoked = "none"
          /\ session' = session
          /\ wpc' = wpc
          /\ accounts_lock' = accounts_lock
          /\ spent_lock' = spent_lock]_vars

C7_Witness ==
    /\ Replied
    /\ call.method = "set_transaction_memo"
    /\ call.input = JObj([txid |-> JStr("tx")])
    /\ call.result.v = Err([message |-> <<"set_transaction_memo: missing memo">>,
                            error |-> "id_unknown"])
    /\ call.invoked = "none"
    /\ session.user_wants_to_sync

\* C10: get_subaccount with `subaccount` = n queries the registry at index n; for
\* n >= 2^32 it does not answer with the summary of an account at another index
C10_SubaccountIndexNotTruncated ==
    (/\ Replied
     /\ call.method = "get_subaccount"
     /\ call.input.t = "object"
     /\ "subaccount" \in DOMAIN call.input.o
     /\ call.input.o["subaccount"].t = "u64"
     /\ call.input.o["subaccount"].hi > 0)
    => ~call.result.v.ok

(***************************************************************************)
(* Properties of the state shared with the workers (SyncSpec, FairSpec)    *)
(***************************************************************************)
\* the step is worker w's clear_if_confirmed
ClearsSpent(w) == wpc[w] = "spent" /\ wpc'[w] = "poll"
\* a read of the spent-output set by the dispatcher
ReadSpent ==
    HandleCall("get_unspent_outputs", JObj([subaccount |-> JU64(0, 0)]),
               [out |-> "ok", fees |-> <<>>])

Running(w) == wpc[w] \in {"poll", "accounts", "confirm", "spent"}

====
